---- MODULE Spec2Model ----
(***************************************************************************)
(* Function Secret Sharing (syft/frameworks/torch/mpc/fss.py).             *)
(*                                                                         *)
(* The source fixes lambda = 110 (seed width), n = 32 (bit precision),     *)
(* keeps every bit array and the leaf correction CW_n in uint8 tensors     *)
(* (8 bits) and takes its PRG bits from a 256-bit SHA3 digest.  The model  *)
(* keeps the order of these widths, U8Bits < n <= lambda and               *)
(* 2*(lambda+2) <= DigestBits, at sizes TLC can enumerate.                 *)
(*                                                                         *)
(* A tensor operation that fails (split with sizes that do not sum to the  *)
(* length, ^ of two lengths that do not broadcast) raises RuntimeError:    *)
(* the functions that can fail return [raised, value].                     *)
(***************************************************************************)
EXTENDS Integers, Sequences, FiniteSets, TLC

\* bit precision of the shared integers (source: n = 32)
n == 3
\* security parameter: seed width in bits (source: 110)
lambda == 3
\* width of the uint8 containers (source: 8 bits, smaller than n)
U8Bits == 2
\* width of the hash digest the PRG reads (source: 256 bits, SHA3-256)
DigestBits == 12
\* number of PRG functions (digest functions) the inputs are drawn from
NumPRG == 2

M == 2 ^ n
U8Mod == 2 ^ U8Bits
Bit == {0, 1}
BitStrings(w) == [1..w -> Bit]
Party == {0, 1}

(***************************************************************************)
(* L1: bit algebra                                                         *)
(***************************************************************************)
\* uint8 wrap-around of an integer result (dtype=th.uint8)
U8(v) == v % U8Mod

\* elementwise ^ of two bit tensors of the same length
XorBits(a, b) == [i \in 1..Len(a) |-> (a[i] + b[i]) % 2]

\* t * CW for a bit t and a bit tensor CW
ScaleBits(t, a) == [i \in 1..Len(a) |-> t * a[i]]

\* value of a bit sequence read MSB first
RECURSIVE BitsValue(_)
BitsValue(bits) ==
    IF Len(bits) = 0 THEN 0
    ELSE 2 * BitsValue(SubSeq(bits, 1, Len(bits) - 1)) + bits[Len(bits)]

\* number of binary digits of d > 0
RECURSIVE BitLength(_)
BitLength(d) == IF d = 0 THEN 0 ELSE 1 + BitLength(d \div 2)

\* the k binary digits of d, MSB first
BinDigits(d, k) == [i \in 1..k |-> (d \div 2 ^ (k - i)) % 2]

\* bin(d)[2:]: the binary digits of d, MSB first, without leading zeros
bin(d) == IF d = 0 THEN <<0>> ELSE BinDigits(d, BitLength(d))

\* smallest digest whose binary string has the 2*(lambda+2) digits H reads
DigestLo == 2 ^ (2 * (lambda + 2) - 1)

\* the seed on which digest function g > 0 returns leading zero bits
ShortSeed(g) == (2 ^ lambda - 2 + 3 * g) % 2 ^ lambda

\* hashlib.sha3_256(str(seed.tolist()).encode()).digest() as an integer:
\* an arbitrary deterministic function of the seed with values in
\* 0..2^DigestBits - 1; g selects one of NumPRG such functions.  A digest
\* may start with zero bits: function 0 stands for the hash on seeds whose
\* digests all have the digits G and H slice, every other function has one
\* seed whose digest has fewer binary digits than the 2*(lambda+1) of G.
sha3_256(g, seed) ==
    LET v == (BitsValue(seed) + 1 + g) * (397 + 262 * g) + 5 * g
    IN  IF g > 0 /\ BitsValue(seed) = ShortSeed(g)
        THEN (v \div 3) % 2 ^ (2 * (lambda + 1) - 1)
        ELSE DigestLo + (v % (2 ^ DigestBits - DigestLo))

\* binary_str[2 : 2 + w]: the first w digits of the binary string
LeadingBits(d, w) ==
    LET b == bin(d) IN SubSeq(b, 1, IF Len(b) < w THEN Len(b) ELSE w)

\* PRG of the DPF: 2*(lambda+1) bits
G(g, seed) == LeadingBits(sha3_256(g, seed), 2 * (lambda + 1))

\* PRG of the DIF: 2 + 2*(lambda+1) bits
H(g, seed) == LeadingBits(sha3_256(g, seed), 2 + 2 * (lambda + 1))

\* bit_pow_lambda: 2 ** arange(lambda), flipped, cast to uint8
bit_pow_lambda == [i \in 1..lambda |-> U8(2 ^ (lambda - i))]

\* uint8 dot product
RECURSIVE DotU8(_, _, _)
DotU8(a, b, i) ==
    IF i = 0 THEN 0 ELSE U8(DotU8(a, b, i - 1) + U8(a[i] * b[i]))

\* bits.dot(bit_pow_lambda), a uint8 scalar
Convert(bits) == DotU8(bits, bit_pow_lambda, Len(bits))

\* ((x & bit_pow_n) > 0): the n bits of x, MSB first
bit_decomposition(x) == [i \in 1..n |-> (x \div 2 ^ (n - i)) % 2]

\* row r (0 or 1) of a flat tensor reshaped to (2, w)
Row(flat, r, w) == SubSeq(flat, r * w + 1, r * w + w)

Zeros(w) == [i \in 1..w |-> 0]

\* a table whose row of alpha_i ends in 0 instead of one
TruthTableDPF_zero(s, a_i) ==
    IF a_i = 0 THEN (s \o <<0>>) \o Zeros(lambda + 1)
    ELSE Zeros(lambda + 1) \o (s \o <<0>>)

\* Table[alpha_i] = concat(s, one); Table.flatten()
TruthTableDPF(s, a_i) ==
    IF a_i = 0 THEN (s \o <<1>>) \o Zeros(lambda + 1)
    ELSE Zeros(lambda + 1) \o (s \o <<1>>)

\* leafTable[1 - alpha_i] = alpha_i; nextTable[alpha_i] = concat(s, one);
\* concat(leafTable, nextTable, axis=1).flatten()
TruthTableDIF(s, a_i) ==
    LET leaf(r) == IF r = 1 - a_i THEN a_i ELSE 0
        next(r) == IF r = a_i THEN s \o <<1>> ELSE Zeros(lambda + 1)
    IN  (<<leaf(0)>> \o next(0)) \o (<<leaf(1)>> \o next(1))

\* (-1) ** t for a uint8 bit t: the uint8 value of -1 to the power t
NegOnePowU8(t) == IF t = 1 THEN U8(-1) ELSE 1

\* whether a ^ b of a tensor of length la with one of length w broadcasts
Broadcasts(la, w) == la = w \/ la = 1

\* a tensor of length w or 1 expanded to length w
Expand(a, w) == IF Len(a) = w THEN a ELSE [i \in 1..w |-> a[1]]

(***************************************************************************)
(* L2: DPF                                                                 *)
(***************************************************************************)
\* one iteration of the keygen loop (body of "for i in range(0, n)")
DPFKeygenLevel(g, a_i, st) ==
    LET w == 2 * (lambda + 1)
        g0 == G(g, st.s0)
        g1 == G(g, st.s1)
        sL_0 == SubSeq(g0, 1, lambda)
        sR_0 == SubSeq(g0, lambda + 2, 2 * lambda + 1)
        sL_1 == SubSeq(g1, 1, lambda)
        sR_1 == SubSeq(g1, lambda + 2, 2 * lambda + 1)
        s_rand == IF a_i = 1 THEN XorBits(sL_0, sL_1) ELSE XorBits(sR_0, sR_1)
        cw_i == TruthTableDPF(s_rand, a_i)
        CW_i == XorBits(XorBits(cw_i, g0), g1)
        tau0 == Row(XorBits(g0, ScaleBits(st.t0, CW_i)), a_i, lambda + 1)
        tau1 == Row(XorBits(g1, ScaleBits(st.t1, CW_i)), a_i, lambda + 1)
    IN  IF st.raised THEN st
        \* split(g0, [lambda, 1, lambda, 1]), split(g1, ...) raise
        ELSE IF Len(g0) # w \/ Len(g1) # w THEN [st EXCEPT !.raised = TRUE]
        ELSE [s0 |-> SubSeq(tau0, 1, lambda), t0 |-> tau0[lambda + 1],
              s1 |-> SubSeq(tau1, 1, lambda), t1 |-> tau1[lambda + 1],
              CW |-> Append(st.CW, CW_i), raised |-> FALSE]

RECURSIVE DPFKeygenLoop(_, _, _, _)
DPFKeygenLoop(g, abits, i, st) ==
    IF i > n THEN st
    ELSE DPFKeygenLoop(g, abits, i + 1, DPFKeygenLevel(g, abits[i], st))

\* DPF.keygen with its random draws (alpha, s[0]) and the PRG as inputs;
\* returns (alpha, s[0][0], s[0][1], CW, CW_n), or raises RuntimeError
DPF_keygen(g, alpha, seeds) ==
    LET st == DPFKeygenLoop(g, bit_decomposition(alpha), 1,
                  [s0 |-> seeds[1], t0 |-> 0, s1 |-> seeds[2], t1 |-> 1,
                   CW |-> <<>>, raised |-> FALSE])
        CW_n == U8(NegOnePowU8(st.t1)
                    * U8(U8(1 - Convert(st.s0)) + Convert(st.s1)))
    IN  IF st.raised THEN [raised |-> TRUE, value |-> <<>>]
        ELSE [raised |-> FALSE,
              value |-> <<alpha, seeds[1], seeds[2], st.CW, CW_n>>]

\* one iteration of the eval loop
DPFEvalLevel(g, x_i, CW_i, st) ==
    LET w == 2 * (lambda + 1)
        gs == G(g, st.s)
        tau == Row(XorBits(Expand(gs, w), ScaleBits(st.t, CW_i)), x_i, lambda + 1)
    IN  IF st.raised THEN st
        \* G(s[i]) ^ (t[i] * CW[i]) raises
        ELSE IF ~Broadcasts(Len(gs), w) THEN [st EXCEPT !.raised = TRUE]
        ELSE [s |-> SubSeq(tau, 1, lambda), t |-> tau[lambda + 1],
              raised |-> FALSE]

RECURSIVE DPFEvalLoop(_, _, _, _, _)
DPFEvalLoop(g, xbits, CW, i, st) ==
    IF i > n THEN st
    ELSE DPFEvalLoop(g, xbits, CW, i + 1, DPFEvalLevel(g, xbits[i], CW[i], st))

\* DPF.eval(b, x, s_0, CW, CW_n): the product of (-1) ** b and the uint8
\* value Convert(s[n]) + t[n] * CW[n].  When b is a th.IntTensor (b_tensor,
\* as fss_op passes it) the product is promoted to int32; when b is a python
\* int the product stays uint8 and wraps.
DPF_eval(g, b, b_tensor, x, s_0, CW, CW_n) ==
    LET st == DPFEvalLoop(g, bit_decomposition(x), CW, 1,
                  [s |-> s_0, t |-> b, raised |-> FALSE])
        v == U8(Convert(st.s) + U8(st.t * CW_n))
    IN  IF st.raised THEN [raised |-> TRUE, value |-> <<>>]
        ELSE [raised |-> FALSE,
              value |-> IF b = 0 THEN v
                        ELSE IF b_tensor THEN -v ELSE U8(-v)]

(***************************************************************************)
(* L3: DIF                                                                 *)
(***************************************************************************)
DIFKeygenLevel(g, a_i, st) ==
    LET w == 2 + 2 * (lambda + 1)
        h0 == H(g, st.s0)
        h1 == H(g, st.s1)
        sL_0 == SubSeq(h0, 3, lambda + 2)
        sR_0 == SubSeq(h0, lambda + 4, 2 * lambda + 3)
        sL_1 == SubSeq(h1, 3, lambda + 2)
        sR_1 == SubSeq(h1, lambda + 4, 2 * lambda + 3)
        s_rand == IF a_i = 1 THEN XorBits(sL_0, sL_1) ELSE XorBits(sR_0, sR_1)
        cw_i == TruthTableDIF(s_rand, a_i)
        CW_i == XorBits(XorBits(cw_i, h0), h1)
        tau0 == Row(XorBits(h0, ScaleBits(st.t0, CW_i)), a_i, lambda + 2)
        tau1 == Row(XorBits(h1, ScaleBits(st.t1, CW_i)), a_i, lambda + 2)
    IN  IF st.raised THEN st
        \* split(h0, [1, 1, lambda, 1, lambda, 1]), split(h1, ...) raise
        ELSE IF Len(h0) # w \/ Len(h1) # w THEN [st EXCEPT !.raised = TRUE]
        ELSE [s0 |-> SubSeq(tau0, 2, lambda + 1), t0 |-> tau0[lambda + 2],
              s1 |-> SubSeq(tau1, 2, lambda + 1), t1 |-> tau1[lambda + 2],
              CW |-> Append(st.CW, CW_i), raised |-> FALSE]

RECURSIVE DIFKeygenLoop(_, _, _, _)
DIFKeygenLoop(g, abits, i, st) ==
    IF i > n THEN st
    ELSE DIFKeygenLoop(g, abits, i + 1, DIFKeygenLevel(g, abits[i], st))

\* DIF.keygen with its random draws and the PRG as inputs;
\* returns (alpha, s[0][0], s[0][1], CW), or raises RuntimeError
DIF_keygen(g, alpha, seeds) ==
    LET st == DIFKeygenLoop(g, bit_decomposition(alpha), 1,
                  [s0 |-> seeds[1], t0 |-> 0, s1 |-> seeds[2], t1 |-> 1,
                   CW |-> <<>>, raised |-> FALSE])
    IN  IF st.raised THEN [raised |-> TRUE, value |-> <<>>]
        ELSE [raised |-> FALSE, value |-> <<alpha, seeds[1], seeds[2], st.CW>>]

\* one iteration of the eval loop; out collects FnOutput[i]
DIFEvalLevel(g, x_i, CW_i, st) ==
    LET w == 2 + 2 * (lambda + 1)
        hs == H(g, st.s)
        tau == Row(XorBits(Expand(hs, w), ScaleBits(st.t, CW_i)), x_i, lambda + 2)
    IN  IF st.raised THEN st
        \* H(s[i]) ^ (t[i] * CW[i]) raises
        ELSE IF ~Broadcasts(Len(hs), w) THEN [st EXCEPT !.raised = TRUE]
        ELSE [s |-> SubSeq(tau, 2, lambda + 1), t |-> tau[lambda + 2],
              out |-> st.out + tau[1], raised |-> FALSE]

RECURSIVE DIFEvalLoop(_, _, _, _, _)
DIFEvalLoop(g, xbits, CW, i, st) ==
    IF i > n THEN st
    ELSE DIFEvalLoop(g, xbits, CW, i + 1, DIFEvalLevel(g, xbits[i], CW[i], st))

\* DIF.eval(b, x, s_0, CW): FnOutput.sum() % 2, or raises RuntimeError
DIF_eval(g, b, x, s_0, CW) ==
    LET st == DIFEvalLoop(g, bit_decomposition(x), CW, 1,
                  [s |-> s_0, t |-> b, out |-> 0, raised |-> FALSE])
    IN  IF st.raised THEN [raised |-> TRUE, value |-> <<>>]
        ELSE [raised |-> FALSE, value |-> (st.out + st.t) % 2]

(***************************************************************************)
(* L5: primitive store; L4: the plans run on each worker                   *)
(*                                                                         *)
(* A crypto_store is a record of the three lists fss_eq, fss_comp and      *)
(* xor_add_couple.  A call on a worker returns [raised, error, value,      *)
(* key, crypto_store]: whether EmptyCryptoPrimitiveStoreError was raised   *)
(* and the name it carries, the value returned, the primitive get_keys     *)
(* handed out, and the worker's store afterwards.  An evaluation plan      *)
(* whose DPF.eval or DIF.eval raises has error "RuntimeError" and the      *)
(* store get_keys left.                                                    *)
(***************************************************************************)
TypeOps == {"eq", "comp", "xor_add"}

EmptyStore == [fss_eq |-> <<>>, fss_comp |-> <<>>, xor_add_couple |-> <<>>]

QueueNames == DOMAIN EmptyStore

\* the attribute of crypto_store that get_keys selects for type_op
primitive_stack(type_op) ==
    CASE type_op = "eq" -> "fss_eq"
      [] type_op = "comp" -> "fss_comp"
      [] type_op = "xor_add" -> "xor_add_couple"

\* a store that removes the element in read mode too
get_keys_always_remove(cs, type_op, remove) ==
    LET q == primitive_stack(type_op)
    IN  IF cs[q] = <<>>
        THEN [raised |-> TRUE, error |-> "fss_" \o type_op, value |-> <<>>,
              key |-> <<>>, crypto_store |-> cs]
        ELSE [raised |-> FALSE, error |-> "", value |-> Head(cs[q]),
              key |-> Head(cs[q]),
              crypto_store |-> [cs EXCEPT ![q] = Tail(cs[q])]]

\* a store whose remove mode takes the newest element (pop() for pop(0))
get_keys_newest(cs, type_op, remove) ==
    LET q == primitive_stack(type_op)
        last == cs[q][Len(cs[q])]
    IN  IF cs[q] = <<>>
        THEN [raised |-> TRUE, error |-> "fss_" \o type_op, value |-> <<>>,
              key |-> <<>>, crypto_store |-> cs]
        ELSE IF remove
        THEN [raised |-> FALSE, error |-> "", value |-> last, key |-> last,
              crypto_store |-> [cs EXCEPT ![q] = SubSeq(cs[q], 1, Len(cs[q]) - 1)]]
        ELSE [raised |-> FALSE, error |-> "", value |-> Head(cs[q]),
              key |-> Head(cs[q]), crypto_store |-> cs]

get_keys(cs, type_op, remove) ==
    LET q == primitive_stack(type_op)
    IN  IF cs[q] = <<>>
        THEN [raised |-> TRUE, error |-> "fss_" \o type_op, value |-> <<>>,
              key |-> <<>>, crypto_store |-> cs]
        ELSE [raised |-> FALSE, error |-> "", value |-> Head(cs[q]),
              key |-> Head(cs[q]),
              crypto_store |-> IF remove THEN [cs EXCEPT ![q] = Tail(cs[q])]
                               ELSE cs]

\* x ^ y on non-negative integers
RECURSIVE BitXor(_, _)
BitXor(a, b) ==
    IF a = 0 THEN b
    ELSE IF b = 0 THEN a
    ELSE 2 * BitXor(a \div 2, b \div 2) + ((a + b) % 2)

\* a mask build that adds the second operand
mask_builder_plus(cs, x1s, x2s, type_op) ==
    LET k == get_keys(cs, type_op, FALSE)
    IN  IF k.raised THEN k
        ELSE [k EXCEPT !.value = (x1s + x2s) + k.value[1]]

\* a mask build that leaves the alpha share out
mask_builder_no_alpha(cs, x1s, x2s, type_op) ==
    LET k == get_keys(cs, type_op, FALSE)
    IN  IF k.raised THEN k
        ELSE [k EXCEPT !.value = x1s - x2s]

\* a mask build that removes the key it reads
mask_builder_remove(cs, x1s, x2s, type_op) ==
    LET k == get_keys(cs, type_op, TRUE)
    IN  IF k.raised THEN k
        ELSE [k EXCEPT !.value = (x1s - x2s) + k.value[1]]

\* an fss primitive is (alpha, s_0, CW[, CW_n]); a couple is (xor_share, add_share)
mask_builder(cs, x1s, x2s, type_op) ==
    LET k == get_keys(cs, type_op, FALSE)
    IN  IF k.raised THEN k
        ELSE [k EXCEPT !.value = (x1s - x2s) + k.value[1]]

\* the outcome of an evaluation plan after get_keys returned k
EvalOutcome(k, e) ==
    IF e.raised
    THEN [k EXCEPT !.raised = TRUE, !.error = "RuntimeError", !.value = <<>>]
    ELSE [k EXCEPT !.value = e.value]

\* b_tensor: whether the caller passes b as a th.IntTensor
eq_eval_plan(g, cs, b, b_tensor, x_masked) ==
    LET k == get_keys(cs, "eq", TRUE)
    IN  IF k.raised THEN k
        ELSE EvalOutcome(k, DPF_eval(g, b, b_tensor, x_masked,
                                     k.value[2], k.value[3], k.value[4]))

comp_eval_plan(g, cs, b, x_masked) ==
    LET k == get_keys(cs, "comp", TRUE)
    IN  IF k.raised THEN k
        ELSE EvalOutcome(k, DIF_eval(g, b, x_masked, k.value[2], k.value[3]))

\* a first conversion round that removes the couple it reads
xor_add_convert_1_remove(cs, x) ==
    LET k == get_keys(cs, "xor_add", TRUE)
    IN  IF k.raised THEN k
        ELSE [k EXCEPT !.value = BitXor(x, k.value[1])]

xor_add_convert_1(cs, x) ==
    LET k == get_keys(cs, "xor_add", FALSE)
    IN  IF k.raised THEN k
        ELSE [k EXCEPT !.value = BitXor(x, k.value[1])]

\* a second conversion round that adds the party index without the masked bit
xor_add_convert_2_plain_b(cs, b, x) ==
    LET k == get_keys(cs, "xor_add", TRUE)
    IN  IF k.raised THEN k
        ELSE [k EXCEPT !.value = k.value[2] * (1 - 2 * x) + b]

xor_add_convert_2(cs, b, x) ==
    LET k == get_keys(cs, "xor_add", TRUE)
    IN  IF k.raised THEN k
        ELSE [k EXCEPT !.value = k.value[2] * (1 - 2 * x) + x * b]

(***************************************************************************)
(* The dealer (crypto provider): not part of fss.py.  It runs keygen,      *)
(* splits alpha additively and ships one half of every pair to each party. *)
(* It ships the pairs of the draws on which keygen returned.               *)
(***************************************************************************)
build_fss_keys(g, type_op, alpha, seeds, mask) ==
    IF type_op = "eq"
    THEN LET k == DPF_keygen(g, alpha, seeds).value
         IN  << <<(k[1] - mask) % M, k[2], k[4], k[5]>>,
                <<mask, k[3], k[4], k[5]>> >>
    ELSE LET k == DIF_keygen(g, alpha, seeds).value
         IN  << <<(k[1] - mask) % M, k[2], k[4]>>,
                <<mask, k[3], k[4]>> >>

\* a shared bit r: xor shares (r ^ mask1, mask1), additive shares (r - mask2, mask2)
build_xor_add_couple(r, mask1, mask2) ==
    << <<BitXor(r, mask1), (r - mask2) % M>>, <<mask1, mask2>> >>

\* the k-th pair the dealer produces for each queue, from its random draws:
\* a0 and rc seed the draws, so that pairs differ from one another
ToBits(v, w) == [i \in 1..w |-> (v \div 2 ^ (w - i)) % 2]

DealerAlpha(a0, k) == (a0 + k - 1) % M

DealerSeeds(a0, k) ==
    <<ToBits((3 * k + a0) % 2 ^ lambda, lambda),
      ToBits((5 * k + 2) % 2 ^ lambda, lambda)>>

DealerPair(g, q, a0, rc, k) ==
    LET alpha == DealerAlpha(a0, k)
        seeds == DealerSeeds(a0, k)
        mask == (a0 + 3 * k) % M
    IN  CASE q = "fss_eq" -> build_fss_keys(g, "eq", alpha, seeds, mask)
          [] q = "fss_comp" -> build_fss_keys(g, "comp", alpha, seeds, mask)
          [] q = "xor_add_couple" ->
                build_xor_add_couple((rc + k) % 2, k % 2, (3 * k) % M)

\* keygen returned on each of the dealer's first count draws
DealerReturns(g, a0, count) ==
    \A k \in 1..count :
        /\ ~DPF_keygen(g, DealerAlpha(a0, k), DealerSeeds(a0, k)).raised
        /\ ~DIF_keygen(g, DealerAlpha(a0, k), DealerSeeds(a0, k)).raised

\* keygen_eq(count), keygen_comp(count), keygen_xor_add(count)
Provide(g, a0, rc, count) ==
    [q \in QueueNames |-> [k \in 1..count |-> DealerPair(g, q, a0, rc, k)]]

\* an additive sharing of x between the two parties
Share(x, r) == <<r, (x - r) % M>>

\* the value an additive sharing holds
Recover(sh) == (sh[1] + sh[2]) % M

(***************************************************************************)
(* fss_op as one function of the two stores: the plans in the order the    *)
(* orchestrator requests them, stopping at the first error; b is sent as   *)
(* th.IntTensor([i])                                                       *)
(***************************************************************************)
fss_op(g, st, a1, a2, type_op) ==
    LET m0 == mask_builder(st[0], a1[1], a2[1], type_op)
        m1 == mask_builder(st[1], a1[2], a2[2], type_op)
        mask_value == (m0.value + m1.value) % 2 ^ n
        e0 == IF type_op = "eq" THEN eq_eval_plan(g, st[0], 0, TRUE, mask_value)
              ELSE comp_eval_plan(g, st[0], 0, mask_value)
        e1 == IF type_op = "eq" THEN eq_eval_plan(g, st[1], 1, TRUE, mask_value)
              ELSE comp_eval_plan(g, st[1], 1, mask_value)
        st2 == [p \in Party |-> IF p = 0 THEN e0.crypto_store ELSE e1.crypto_store]
        c0 == xor_add_convert_1(st2[0], e0.value)
        c1 == xor_add_convert_1(st2[1], e1.value)
        masked_value == BitXor(c0.value, c1.value)
        d0 == xor_add_convert_2(st2[0], 0, masked_value)
        d1 == xor_add_convert_2(st2[1], 1, masked_value)
        st3 == [p \in Party |-> IF p = 0 THEN d0.crypto_store ELSE d1.crypto_store]
        fail(e, s) == [raised |-> TRUE, error |-> e, response |-> <<>>, store |-> s]
    IN  IF m0.raised THEN fail(m0.error, st)
        ELSE IF m1.raised THEN fail(m1.error, st)
        ELSE IF e0.raised THEN fail(e0.error, [st EXCEPT ![0] = e0.crypto_store])
        ELSE IF e1.raised THEN fail(e1.error, st2)
        ELSE IF type_op = "eq"
             THEN [raised |-> FALSE, error |-> "",
                   response |-> <<e0.value, e1.value>>, store |-> st2]
        ELSE IF c0.raised THEN fail(c0.error, st2)
        ELSE IF c1.raised THEN fail(c1.error, st2)
        ELSE IF d0.raised THEN fail(d0.error, st2)
        ELSE IF d1.raised THEN fail(d1.error, [st2 EXCEPT ![0] = d0.crypto_store])
        ELSE [raised |-> FALSE, error |-> "",
              response |-> <<d0.value, d1.value>>, store |-> st3]

(***************************************************************************)
(* State                                                                   *)
(***************************************************************************)
VARIABLES
    prg,      \* the PRG function in use (index of the digest function)
    flambda,  \* the configured security parameter (the PRG specification
              \* configures others than lambda)
    fkind,    \* key-function specifications: "dpf", "dif", "prg" or "convert"
    falpha,   \* keygen's draw of alpha; the digest in the PRG specification
    fseeds,   \* keygen's draw of s[0]
    fkey,     \* the outcome of keygen, <<>> before keygen
    fx,       \* the point the key pair was last evaluated on, -1 before
    fbt,      \* whether that evaluation passed b as a th.IntTensor
    fout,     \* the outcomes <<eval(0, fx, k0), eval(1, fx, k1)>>
    dealt,    \* per queue, the pairs the dealer produced, in order
    recv,     \* recv[p][q]: how many halves party p received for queue q
    store,    \* store[p]: the crypto_store of party p
    x1, x2,   \* the operands: x1[p + 1] is x1.child[location p]
    pc,       \* the orchestrator: idle, plan_1, plan_2, xor_add_1, xor_add_2,
              \* returned (fss_op returned), raised (fss_op raised)
    type_op,  \* type_op of the running fss_op
    loc,      \* the next location of the running loop
    shares,   \* the list "shares" of fss_op
    mask_value, prev_shares, masked_value,
    response, \* the per-party shares fss_op returned
    error,    \* the name carried by the EmptyCryptoPrimitiveStoreError
    gk,       \* the last direct get_keys call and its outcome
    pre,      \* history: the stores when the running fss_op was called
    acc,      \* history: the primitive each plan of this fss_op was handed,
              \* and the x_masked each party's plan_2 was sent
    popped,   \* history: popped[p][q], the primitives removed, in order
    refill,   \* history: the stores at the call of a failed eq, plus the
              \* halves delivered since; <<>> when the last call did not fail
    retry,    \* history: refill at the call of the running eq
    conc      \* concurrent operations: conc[o], the fss_op of thread o

fvars == <<flambda, fkind, falpha, fseeds, fkey, fx, fbt, fout>>
opvars == <<pc, type_op, loc, shares, mask_value, prev_shares, masked_value,
            response, error>>
histvars == <<pre, acc, popped, refill, retry>>
pvars == <<dealt, recv, store, x1, x2, opvars, gk, histvars, conc>>
vars == <<prg, fvars, pvars>>

NoAcc == [peek1 |-> <<<<>>, <<>>>>, pop2 |-> <<<<>>, <<>>>>,
          peekx |-> <<<<>>, <<>>>>, popx |-> <<<<>>, <<>>>>,
          x_masked |-> <<-1, -1>>]

\* no concurrent operations
NoConc == <<>>

NoKeyFn ==
    /\ flambda = lambda
    /\ fkind = "none" /\ falpha = 0 /\ fseeds = <<>> /\ fkey = <<>>
    /\ fx = -1 /\ fbt = FALSE /\ fout = <<>>

OpIdle ==
    /\ pc = "idle" /\ type_op = "" /\ loc = 0 /\ shares = <<>>
    /\ mask_value = -1 /\ prev_shares = <<>> /\ masked_value = -1
    /\ response = <<>> /\ error = ""
    /\ gk = <<>>
    /\ pre = <<>> /\ acc = NoAcc
    /\ popped = [p \in Party |-> EmptyStore]
    /\ refill = <<>> /\ retry = <<>>

NoProtocol ==
    /\ dealt = [q \in QueueNames |-> <<>>]
    /\ recv = [p \in Party |-> [q \in QueueNames |-> 0]]
    /\ store = [p \in Party |-> EmptyStore]
    /\ x1 = <<0, 0>> /\ x2 = <<0, 0>>
    /\ OpIdle
    /\ conc = NoConc

(***************************************************************************)
(* Key-function specifications: keygen, then eval of both halves           *)
(***************************************************************************)
InitKeyFn(kind) ==
    /\ prg \in 0..(NumPRG - 1)
    /\ flambda = lambda
    /\ fkind = kind
    /\ falpha \in 0..(M - 1)
    /\ fseeds \in BitStrings(lambda) \X BitStrings(lambda)
    /\ fkey = <<>>
    /\ fx = -1
    /\ fbt = FALSE
    /\ fout = <<>>
    /\ NoProtocol

InitDPF == InitKeyFn("dpf")

InitDIF == InitKeyFn("dif")

DPFKeygen ==
    /\ fkind = "dpf" /\ fkey = <<>>
    /\ fkey' = DPF_keygen(prg, falpha, fseeds)
    /\ UNCHANGED <<prg, flambda, fkind, falpha, fseeds, fx, fbt, fout, pvars>>

\* DPF.eval(0, x, k0) and DPF.eval(1, x, k1) on a key pair keygen returned,
\* b passed as th.IntTensor([b]) (b_tensor) or as the python int
DPFEval(x, b_tensor) ==
    /\ fkind = "dpf" /\ fkey # <<>> /\ ~fkey.raised /\ fx = -1
    /\ fx' = x
    /\ fbt' = b_tensor
    /\ LET k == fkey.value
       IN  fout' = <<DPF_eval(prg, 0, b_tensor, x, k[2], k[4], k[5]),
                     DPF_eval(prg, 1, b_tensor, x, k[3], k[4], k[5])>>
    /\ UNCHANGED <<prg, flambda, fkind, falpha, fseeds, fkey, pvars>>

DIFKeygen ==
    /\ fkind = "dif" /\ fkey = <<>>
    /\ fkey' = DIF_keygen(prg, falpha, fseeds)
    /\ UNCHANGED <<prg, flambda, fkind, falpha, fseeds, fx, fbt, fout, pvars>>

\* DIF.eval(0, x, k0) and DIF.eval(1, x, k1) on a key pair keygen returned
DIFEval(x) ==
    /\ fkind = "dif" /\ fkey # <<>> /\ ~fkey.raised /\ fx = -1
    /\ fx' = x
    /\ LET k == fkey.value
       IN  fout' = <<DIF_eval(prg, 0, x, k[2], k[4]),
                     DIF_eval(prg, 1, x, k[3], k[4])>>
    /\ UNCHANGED <<prg, flambda, fkind, falpha, fseeds, fkey, fbt, pvars>>

NextDPF == DPFKeygen \/ \E x \in 0..(M - 1), b_tensor \in BOOLEAN : DPFEval(x, b_tensor)

NextDIF == DIFKeygen \/ \E x \in 0..(M - 1) : DIFEval(x)

SpecDPF == InitDPF /\ [][NextDPF]_vars

SpecDIF == InitDIF /\ [][NextDIF]_vars

\* security parameters the PRG specification configures: lambda, and larger
\* ones up to widths 2*(lambda+1) beyond the digest
PRGLambdas == lambda..(DigestBits \div 2 + 1)

\* G from the digest on (lines 311-313), configured with lam; no path raises
GDigest(d, lam) ==
    [raised |-> FALSE, value |-> LeadingBits(d, 2 * (lam + 1))]

\* H from the digest on (lines 320-322), configured with lam; no path raises
HDigest(d, lam) ==
    [raised |-> FALSE, value |-> LeadingBits(d, 2 + 2 * (lam + 1))]

\* the PRGs on every digest value the hash can return
InitPRG ==
    /\ prg = 0
    /\ flambda \in PRGLambdas
    /\ fkind = "prg"
    /\ falpha \in 0..(2 ^ DigestBits - 1)
    /\ fseeds = <<>>
    /\ fkey = <<>>
    /\ fx = -1
    /\ fbt = FALSE
    /\ fout = <<>>
    /\ NoProtocol

\* fout = <<the outcome of G, the outcome of H>> on the digest falpha
PRGRead ==
    /\ fkind = "prg" /\ fx = -1
    /\ fx' = 0
    /\ fout' = <<GDigest(falpha, flambda), HDigest(falpha, flambda)>>
    /\ UNCHANGED <<prg, flambda, fkind, falpha, fseeds, fkey, fbt, pvars>>

NextPRG == PRGRead

SpecPRG == InitPRG /\ [][NextPRG]_vars

\* Convert on every pair of lambda-bit strings
InitConvert ==
    /\ prg = 0
    /\ flambda = lambda
    /\ fkind = "convert"
    /\ falpha = 0
    /\ fseeds \in BitStrings(lambda) \X BitStrings(lambda)
    /\ fkey = <<>>
    /\ fx = -1
    /\ fbt = FALSE
    /\ fout = <<>>
    /\ NoProtocol

\* fout = <<Convert(fseeds[1]), Convert(fseeds[2])>>
ConvertBoth ==
    /\ fkind = "convert" /\ fx = -1
    /\ fx' = 0
    /\ fout' = <<Convert(fseeds[1]), Convert(fseeds[2])>>
    /\ UNCHANGED <<prg, flambda, fkind, falpha, fseeds, fkey, fbt, pvars>>

NextConvert == ConvertBoth

SpecConvert == InitConvert /\ [][NextConvert]_vars

\* both key functions: keygen, then eval of both halves on the same x
InitPath ==
    /\ prg \in 0..(NumPRG - 1)
    /\ flambda = lambda
    /\ fkind \in {"dpf", "dif"}
    /\ falpha \in 0..(M - 1)
    /\ fseeds \in BitStrings(lambda) \X BitStrings(lambda)
    /\ fkey = <<>>
    /\ fx = -1
    /\ fbt = FALSE
    /\ fout = <<>>
    /\ NoProtocol

NextPath == NextDPF \/ NextDIF

SpecPath == InitPath /\ [][NextPath]_vars

\* s[i], t[i] of DPF.eval(b, x, s_0, CW, CW_n) for i = 0..n, as <<s[0], t[0]>>, ...;
\* raised from the level on at which the evaluation raises
RECURSIVE DPFEvalLevels(_, _, _, _, _)
DPFEvalLevels(g, xbits, CW, i, st) ==
    IF i > n THEN <<st>>
    ELSE <<st>> \o DPFEvalLevels(g, xbits, CW, i + 1,
                                 DPFEvalLevel(g, xbits[i], CW[i], st))

\* s[i], t[i] of DIF.eval(b, x, s_0, CW) for i = 0..n
RECURSIVE DIFEvalLevels(_, _, _, _, _)
DIFEvalLevels(g, xbits, CW, i, st) ==
    IF i > n THEN <<st>>
    ELSE <<st>> \o DIFEvalLevels(g, xbits, CW, i + 1,
                                 DIFEvalLevel(g, xbits[i], CW[i], st))

\* the levels party b goes through when it evaluates its half of fkey on fx
EvalLevels(b) ==
    IF fkind = "dpf"
    THEN DPFEvalLevels(prg, bit_decomposition(fx), fkey.value[4], 1,
                       [s |-> fkey.value[2 + b], t |-> b, raised |-> FALSE])
    ELSE DIFEvalLevels(prg, bit_decomposition(fx), fkey.value[4], 1,
                       [s |-> fkey.value[2 + b], t |-> b, out |-> 0,
                        raised |-> FALSE])

(***************************************************************************)
(* The online protocol: one orchestrator (fss_op), two parties, the dealer *)
(***************************************************************************)
\* most pairs the dealer produces per queue
MaxPairs == 2

\* the operand pairs (x, y) and the dealer's draws of the protocol specification
SpecOperands == {<<1, 1>>}
SpecDealerDraws == {2}
\* the dealer's draws of the concurrent specification
ConcDealerDraws == {5}
\* the randomness of the additive sharings of the operands
ShareRand == {1, M - 1}

Idle == pc \in {"idle", "returned", "raised"}

\* a sum that keeps the first share only (shares[0] for sum(shares))
SumSeq_first(sq) == IF sq = <<>> THEN 0 ELSE Head(sq)

RECURSIVE SumSeq(_)
SumSeq(sq) == IF sq = <<>> THEN 0 ELSE Head(sq) + SumSeq(Tail(sq))

HalvesOf(d, p, q, k) == [j \in 1..k |-> d[q][j][p + 1]]

Init ==
    /\ prg = 0
    /\ \E a0 \in SpecDealerDraws :
          DealerReturns(prg, a0, MaxPairs) /\ dealt = Provide(prg, a0, 0, MaxPairs)
    /\ recv = [p \in Party |-> [q \in QueueNames |-> 0]]
    /\ store = [p \in Party |-> EmptyStore]
    /\ \E xy \in SpecOperands :
          x1 = Share(xy[1], 1) /\ x2 = Share(xy[2], M - 1)
    /\ OpIdle
    /\ NoKeyFn
    /\ conc = NoConc

\* every queue of both parties holds its half of one dealer pair
InitOnline ==
    /\ prg \in 0..(NumPRG - 1)
    /\ \E a0 \in 0..(M - 1), rc \in Bit :
          DealerReturns(prg, a0, 1) /\ dealt = Provide(prg, a0, rc, 1)
    /\ recv = [p \in Party |-> [q \in QueueNames |-> 1]]
    /\ store = [p \in Party |-> [q \in QueueNames |-> HalvesOf(dealt, p, q, 1)]]
    /\ \E x \in 0..(M - 1), y \in 0..(M - 1), r \in ShareRand :
          x1 = Share(x, r) /\ x2 = Share(y, (M - r) % M)
    /\ OpIdle
    /\ NoKeyFn
    /\ conc = NoConc

\* the dealer ships the next half of queue q to party p, to each party in
\* the order of the pairs; it does so between two invocations
Deliver(p, q) ==
    /\ Idle
    /\ recv[p][q] < Len(dealt[q])
    /\ LET half == dealt[q][recv[p][q] + 1][p + 1]
       IN  /\ store' = [store EXCEPT ![p][q] = Append(@, half)]
           /\ refill' = IF refill = <<>> THEN <<>>
                        ELSE [refill EXCEPT ![p][q] = Append(@, half)]
    /\ recv' = [recv EXCEPT ![p][q] = @ + 1]
    /\ pc' = "idle" /\ type_op' = "" /\ loc' = 0 /\ shares' = <<>>
    /\ mask_value' = -1 /\ prev_shares' = <<>> /\ masked_value' = -1
    /\ response' = <<>> /\ error' = ""
    /\ gk' = <<>>
    /\ pre' = <<>> /\ acc' = NoAcc /\ retry' = <<>>
    /\ UNCHANGED <<prg, fvars, conc, dealt, x1, x2, popped>>

\* eq(x1, x2) is fss_op(x1, x2, "eq"); le(x1, x2) is fss_op(x1, x2, "comp")
Call(t) ==
    /\ Idle
    /\ pc' = "plan_1" /\ type_op' = t /\ loc' = 0 /\ shares' = <<>>
    /\ mask_value' = -1 /\ prev_shares' = <<>> /\ masked_value' = -1
    /\ response' = <<>> /\ error' = ""
    /\ gk' = <<>>
    /\ pre' = store /\ acc' = NoAcc
    /\ retry' = IF t = "eq" THEN refill ELSE <<>>
    /\ refill' = <<>>
    /\ UNCHANGED <<prg, fvars, conc, dealt, recv, store, x1, x2, popped>>

\* the name an EmptyCryptoPrimitiveStoreError carries
EmptyStoreErrors == {"fss_" \o t : t \in TypeOps}

\* what a plan did to the store of party p
Ran(p, t, r) ==
    /\ store' = [store EXCEPT ![p] = r.crypto_store]
    /\ popped' = LET q == primitive_stack(t)
                 IN  IF Len(r.crypto_store[q]) < Len(store[p][q])
                     THEN [popped EXCEPT ![p][q] = Append(@, r.key)]
                     ELSE popped

\* the error of the plan of party p propagates out of fss_op
Raise(p, t, r) ==
    /\ pc' = "raised"
    /\ error' = r.error
    /\ Ran(p, t, r)
    /\ refill' = IF type_op # "eq" \/ r.error \notin EmptyStoreErrors THEN <<>>
                 ELSE IF retry # <<>> THEN retry ELSE pre
    /\ UNCHANGED <<prg, fvars, conc, dealt, recv, x1, x2, type_op, loc, shares,
                   mask_value, prev_shares, masked_value, response, gk,
                   pre, retry>>

\* lines 96-104: plan_1 on the next location; after the last, the mask
Plan1 ==
    /\ pc = "plan_1"
    /\ LET r == mask_builder(store[loc], x1[loc + 1], x2[loc + 1], type_op)
       IN  IF r.raised THEN Raise(loc, type_op, r) /\ UNCHANGED acc
           ELSE /\ Ran(loc, type_op, r)
                /\ acc' = [acc EXCEPT !.peek1[loc + 1] = r.key]
                /\ IF loc = 0
                   THEN /\ shares' = Append(shares, r.value)
                        /\ loc' = 1
                        /\ UNCHANGED <<pc, mask_value>>
                   ELSE /\ mask_value' = SumSeq(Append(shares, r.value)) % 2 ^ n
                        /\ shares' = <<>>
                        /\ loc' = 0
                        /\ pc' = "plan_2"
                /\ UNCHANGED <<prg, fvars, conc, dealt, recv, x1, x2, type_op,
                               prev_shares, masked_value, response, error, gk,
                               pre, refill, retry>>

\* lines 106-114, 135-139: plan_2 on the next location; after the last, eq returns
Plan2 ==
    /\ pc = "plan_2"
    /\ LET r == IF type_op = "eq"
                THEN eq_eval_plan(prg, store[loc], loc, TRUE, mask_value)
                ELSE comp_eval_plan(prg, store[loc], loc, mask_value)
       IN  IF r.raised
           THEN /\ Raise(loc, type_op, r)
                /\ acc' = IF r.key = <<>> THEN acc
                          ELSE [acc EXCEPT !.pop2[loc + 1] = r.key,
                                           !.x_masked[loc + 1] = mask_value]
           ELSE /\ Ran(loc, type_op, r)
                /\ acc' = [acc EXCEPT !.pop2[loc + 1] = r.key,
                                      !.x_masked[loc + 1] = mask_value]
                /\ IF loc = 0
                   THEN /\ shares' = Append(shares, r.value)
                        /\ loc' = 1
                        /\ UNCHANGED <<pc, prev_shares, response>>
                   ELSE IF type_op = "comp"
                   THEN /\ prev_shares' = Append(shares, r.value)
                        /\ shares' = <<>>
                        /\ loc' = 0
                        /\ pc' = "xor_add_1"
                        /\ UNCHANGED response
                   ELSE /\ response' = Append(shares, r.value)
                        /\ shares' = Append(shares, r.value)
                        /\ loc' = 0
                        /\ pc' = "returned"
                        /\ UNCHANGED prev_shares
                /\ UNCHANGED <<prg, fvars, conc, dealt, recv, x1, x2, type_op,
                               mask_value, masked_value, error, gk,
                               pre, refill, retry>>

\* lines 115-123: xor_add_1 on the next location; after the last, the masked bit
XorAdd1 ==
    /\ pc = "xor_add_1"
    /\ LET r == xor_add_convert_1(store[loc], prev_shares[loc + 1])
       IN  IF r.raised THEN Raise(loc, "xor_add", r) /\ UNCHANGED acc
           ELSE /\ Ran(loc, "xor_add", r)
                /\ acc' = [acc EXCEPT !.peekx[loc + 1] = r.key]
                /\ IF loc = 0
                   THEN /\ shares' = Append(shares, r.value)
                        /\ loc' = 1
                        /\ UNCHANGED <<pc, masked_value>>
                   ELSE /\ masked_value' = BitXor(shares[1], r.value)
                        /\ shares' = <<>>
                        /\ loc' = 0
                        /\ pc' = "xor_add_2"
                /\ UNCHANGED <<prg, fvars, conc, dealt, recv, x1, x2, type_op,
                               mask_value, prev_shares, response, error, gk,
                               pre, refill, retry>>

\* lines 125-134, 138-139: xor_add_2 on the next location; after the last, le returns
XorAdd2 ==
    /\ pc = "xor_add_2"
    /\ LET r == xor_add_convert_2(store[loc], loc, masked_value)
       IN  IF r.raised THEN Raise(loc, "xor_add", r) /\ UNCHANGED acc
           ELSE /\ Ran(loc, "xor_add", r)
                /\ acc' = [acc EXCEPT !.popx[loc + 1] = r.key]
                /\ shares' = Append(shares, r.value)
                /\ IF loc = 0
                   THEN /\ loc' = 1
                        /\ UNCHANGED <<pc, response>>
                   ELSE /\ response' = Append(shares, r.value)
                        /\ loc' = 0
                        /\ pc' = "returned"
                /\ UNCHANGED <<prg, fvars, conc, dealt, recv, x1, x2, type_op,
                               mask_value, prev_shares, masked_value, error, gk,
                               pre, refill, retry>>

\* a direct call of get_keys on the store of party p
GetKeys(p, t, remove) ==
    /\ pc = "idle"
    /\ LET r == get_keys(store[p], t, remove)
       IN  /\ Ran(p, t, r)
           /\ gk' = [worker |-> p, type_op |-> t, remove |-> remove,
                     before |-> store[p], raised |-> r.raised,
                     error |-> r.error, value |-> r.value]
    /\ UNCHANGED <<prg, fvars, conc, dealt, recv, x1, x2, opvars, pre, acc, refill, retry>>

Next ==
    \/ \E p \in Party, q \in QueueNames : Deliver(p, q)
    \/ \E t \in {"eq", "comp"} : Call(t)
    \/ Plan1
    \/ Plan2
    \/ XorAdd1
    \/ XorAdd2

NextOnline ==
    \/ \E t \in {"eq", "comp"} : Call(t)
    \/ Plan1
    \/ Plan2
    \/ XorAdd1
    \/ XorAdd2

\* get_keys sees the store of one worker: party 0 stands for either
NextStore ==
    \/ \E q \in QueueNames : Deliver(0, q)
    \/ \E t \in TypeOps, remove \in BOOLEAN : GetKeys(0, t, remove)

Spec == Init /\ [][Next]_vars

SpecOnline == InitOnline /\ [][NextOnline]_vars

\* the store on its own: the operands play no part
InitStore == Init /\ x1 = Share(1, 1) /\ x2 = Share(1, M - 1)

SpecStore == InitStore /\ [][NextStore]_vars

(***************************************************************************)
(* The boolean-to-arithmetic round on its own: fss_op after round 2 of a   *)
(* le, with boolean shares b0, b1 and one xor-add couple per party: every  *)
(* couple pair (xor_0, add_0), (xor_1, add_1) of lambda-bit xor shares and *)
(* additive shares in [0, M) with xor_0 XOR xor_1 = add_0 + add_1 mod M    *)
(***************************************************************************)
InitB2A ==
    /\ prg = 0
    /\ \E xor_0 \in 0..(2 ^ lambda - 1), xor_1 \in 0..(2 ^ lambda - 1),
          add_1 \in 0..(M - 1) :
          dealt = [q \in QueueNames |->
                      IF q = "xor_add_couple"
                      THEN << << <<xor_0, (BitXor(xor_0, xor_1) - add_1) % M>>,
                                 <<xor_1, add_1>> >> >>
                      ELSE <<>>]
    /\ recv = [p \in Party |-> [q \in QueueNames |-> Len(dealt[q])]]
    /\ store = [p \in Party |-> [q \in QueueNames |->
                    HalvesOf(dealt, p, q, Len(dealt[q]))]]
    /\ x1 = <<0, 0>> /\ x2 = <<0, 0>>
    /\ pc = "xor_add_1" /\ type_op = "comp" /\ loc = 0 /\ shares = <<>>
    /\ mask_value = 0 /\ prev_shares \in Bit \X Bit /\ masked_value = -1
    /\ response = <<>> /\ error = ""
    /\ gk = <<>>
    /\ pre = store /\ acc = NoAcc
    /\ popped = [p \in Party |-> EmptyStore]
    /\ refill = <<>> /\ retry = <<>>
    /\ NoKeyFn
    /\ conc = NoConc

NextB2A == XorAdd1 \/ XorAdd2

SpecB2A == InitB2A /\ [][NextB2A]_vars

\* line 104: the mask the orchestrator reconstructs from the two mask shares
MaskOf(st, a1, a2, t) ==
    (mask_builder(st[0], a1[1], a2[1], t).value
        + mask_builder(st[1], a1[2], a2[2], t).value) % 2 ^ n

\* the alpha the heads of the parties' queues of type t share
AlphaOf(st, t) ==
    LET q == primitive_stack(t)
    IN  (Head(st[0][q])[1] + Head(st[1][q])[1]) % M

\* the stores with the head key pair of type t sharing a instead
WithAlpha(st, t, a) ==
    LET q == primitive_stack(t)
    IN  [st EXCEPT ![0][q][1][1] = (a - Head(st[1][q])[1]) % M]

(***************************************************************************)
(* eq and le for every hidden alpha and every pair of operands             *)
(***************************************************************************)
InitMask ==
    /\ prg = 0
    /\ \E a0 \in 0..(M - 1) :
          DealerReturns(prg, a0, 1) /\ dealt = Provide(prg, a0, 0, 1)
    /\ recv = [p \in Party |-> [q \in QueueNames |-> 1]]
    /\ store = [p \in Party |-> [q \in QueueNames |-> HalvesOf(dealt, p, q, 1)]]
    /\ \E x \in 0..(M - 1), y \in 0..(M - 1), r \in ShareRand :
          x1 = Share(x, r) /\ x2 = Share(y, (M - r) % M)
    /\ OpIdle
    /\ NoKeyFn
    /\ conc = NoConc

SpecMask == InitMask /\ [][NextOnline]_vars

(***************************************************************************)
(* eq under every additive sharing of its operands: one dealer pair in the *)
(* fss_eq queues, x and y split with every random share                    *)
(***************************************************************************)
InitShare ==
    /\ prg = 0
    /\ \E a0 \in SpecDealerDraws :
          DealerReturns(prg, a0, 1) /\ dealt = Provide(prg, a0, 0, 1)
    /\ recv = [p \in Party |-> [q \in QueueNames |-> 1]]
    /\ store = [p \in Party |-> [q \in QueueNames |-> HalvesOf(dealt, p, q, 1)]]
    /\ \E x \in 0..(M - 1), y \in 0..(M - 1), r1 \in 0..(M - 1), r2 \in ShareRand :
          x1 = Share(x, r1) /\ x2 = Share(y, r2)
    /\ OpIdle
    /\ NoKeyFn
    /\ conc = NoConc

NextShare ==
    \/ Call("eq")
    \/ Plan1
    \/ Plan2

SpecShare == InitShare /\ [][NextShare]_vars

(***************************************************************************)
(* Two fss_op of the same type running concurrently on the same two        *)
(* parties: every plan (one queue access) is atomic, the plans of the two  *)
(* operations interleave freely                                            *)
(***************************************************************************)
Threads == {1, 2}

NewOp(t) ==
    [type_op |-> t, pc |-> "plan_1", loc |-> 0, shares |-> <<>>,
     mask_value |-> -1, prev_shares |-> <<>>, masked_value |-> -1,
     response |-> <<>>, error |-> "",
     peek1 |-> <<<<>>, <<>>>>, pop2 |-> <<<<>>, <<>>>>]

InitConc ==
    /\ prg \in 0..(NumPRG - 1)
    /\ \E a0 \in ConcDealerDraws, count \in 1..MaxPairs :
          /\ DealerReturns(prg, a0, count)
          /\ dealt = Provide(prg, a0, 0, count)
          /\ recv = [p \in Party |-> [q \in QueueNames |-> count]]
          /\ store = [p \in Party |-> [q \in QueueNames |->
                          HalvesOf(dealt, p, q, count)]]
    /\ \E x \in 0..(M - 1), y \in 0..(M - 1) :
          x1 = Share(x, 1) /\ x2 = Share(y, M - 1)
    /\ OpIdle
    /\ NoKeyFn
    /\ \E t \in {"eq", "comp"} : conc = [o \in Threads |-> NewOp(t)]

\* the plan of thread o raised: its fss_op raises; an evaluation plan that
\* raises after get_keys has removed the key had been handed that key
CRaise(o, r) ==
    /\ conc' = [conc EXCEPT ![o] =
          LET c == [conc[o] EXCEPT !.pc = "raised", !.error = r.error]
          IN  IF conc[o].pc = "plan_2" /\ r.key # <<>>
              THEN [c EXCEPT !.pop2[conc[o].loc + 1] = r.key]
              ELSE c]
    /\ store' = [store EXCEPT ![conc[o].loc] = r.crypto_store]

\* lines 96-104 in thread o
CPlan1(o) ==
    /\ conc[o].pc = "plan_1"
    /\ LET c == conc[o]
           r == mask_builder(store[c.loc], x1[c.loc + 1], x2[c.loc + 1], c.type_op)
       IN  IF r.raised THEN CRaise(o, r)
           ELSE /\ store' = [store EXCEPT ![c.loc] = r.crypto_store]
                /\ conc' = [conc EXCEPT ![o] =
                      IF c.loc = 0
                      THEN [c EXCEPT !.shares = Append(@, r.value), !.loc = 1,
                                     !.peek1[1] = r.key]
                      ELSE [c EXCEPT !.mask_value =
                                         SumSeq(Append(c.shares, r.value)) % 2 ^ n,
                                     !.shares = <<>>, !.loc = 0, !.pc = "plan_2",
                                     !.peek1[2] = r.key]]
    /\ UNCHANGED <<prg, fvars, dealt, recv, x1, x2, opvars, gk, histvars>>

\* lines 106-114, 135-139 in thread o
CPlan2(o) ==
    /\ conc[o].pc = "plan_2"
    /\ LET c == conc[o]
           r == IF c.type_op = "eq"
                THEN eq_eval_plan(prg, store[c.loc], c.loc, TRUE, c.mask_value)
                ELSE comp_eval_plan(prg, store[c.loc], c.loc, c.mask_value)
       IN  IF r.raised THEN CRaise(o, r)
           ELSE /\ store' = [store EXCEPT ![c.loc] = r.crypto_store]
                /\ conc' = [conc EXCEPT ![o] =
                      IF c.loc = 0
                      THEN [c EXCEPT !.shares = Append(@, r.value), !.loc = 1,
                                     !.pop2[1] = r.key]
                      ELSE IF c.type_op = "comp"
                      THEN [c EXCEPT !.prev_shares = Append(c.shares, r.value),
                                     !.shares = <<>>, !.loc = 0,
                                     !.pc = "xor_add_1", !.pop2[2] = r.key]
                      ELSE [c EXCEPT !.response = Append(c.shares, r.value),
                                     !.shares = Append(c.shares, r.value),
                                     !.loc = 0, !.pc = "returned",
                                     !.pop2[2] = r.key]]
    /\ UNCHANGED <<prg, fvars, dealt, recv, x1, x2, opvars, gk, histvars>>

\* lines 115-123 in thread o
CXorAdd1(o) ==
    /\ conc[o].pc = "xor_add_1"
    /\ LET c == conc[o]
           r == xor_add_convert_1(store[c.loc], c.prev_shares[c.loc + 1])
       IN  IF r.raised THEN CRaise(o, r)
           ELSE /\ store' = [store EXCEPT ![c.loc] = r.crypto_store]
                /\ conc' = [conc EXCEPT ![o] =
                      IF c.loc = 0
                      THEN [c EXCEPT !.shares = Append(@, r.value), !.loc = 1]
                      ELSE [c EXCEPT !.masked_value = BitXor(c.shares[1], r.value),
                                     !.shares = <<>>, !.loc = 0,
                                     !.pc = "xor_add_2"]]
    /\ UNCHANGED <<prg, fvars, dealt, recv, x1, x2, opvars, gk, histvars>>

\* lines 125-134, 138-139 in thread o
CXorAdd2(o) ==
    /\ conc[o].pc = "xor_add_2"
    /\ LET c == conc[o]
           r == xor_add_convert_2(store[c.loc], c.loc, c.masked_value)
       IN  IF r.raised THEN CRaise(o, r)
           ELSE /\ store' = [store EXCEPT ![c.loc] = r.crypto_store]
                /\ conc' = [conc EXCEPT ![o] =
                      IF c.loc = 0
                      THEN [c EXCEPT !.shares = Append(@, r.value), !.loc = 1]
                      ELSE [c EXCEPT !.response = Append(c.shares, r.value),
                                     !.shares = Append(c.shares, r.value),
                                     !.loc = 0, !.pc = "returned"]]
    /\ UNCHANGED <<prg, fvars, dealt, recv, x1, x2, opvars, gk, histvars>>

NextConc ==
    \/ \E o \in Threads : CPlan1(o)
    \/ \E o \in Threads : CPlan2(o)
    \/ \E o \in Threads : CXorAdd1(o)
    \/ \E o \in Threads : CXorAdd2(o)

SpecConc == InitConc /\ [][NextConc]_vars

(***************************************************************************)
(* Claims                                                                  *)
(***************************************************************************)
Indicator(b) == IF b THEN 1 ELSE 0

\* C1 (eq soundness): when eq returns, the two result shares sum mod M to 1
\* if the shared values are equal and to 0 otherwise.
C1_EqSound ==
    (pc = "returned" /\ type_op = "eq") =>
        Recover(response) = Indicator(Recover(x1) = Recover(x2))

\* C2 (le soundness): when le returns, after the boolean-to-arithmetic round,
\* the two result shares sum mod M to 1 if x <= y and to 0 otherwise.
C2_LeSound ==
    (pc = "returned" /\ type_op = "comp") =>
        Recover(response) = Indicator(Recover(x1) <= Recover(x2))

\* C3 (DPF correctness): for every alpha, pair of seeds and PRG, DPF.keygen
\* builds a key pair, and for every x the outputs of DPF.eval(0, x, k0) and
\* DPF.eval(1, x, k1), added in the uint8 container they are returned in,
\* give mod M 1 if x = alpha and 0 otherwise.
C3_DPFCorrect ==
    (fkind = "dpf" /\ fkey # <<>>) =>
        /\ ~fkey.raised
        /\ (fx # -1 /\ ~fbt) =>
              /\ ~fout[1].raised /\ ~fout[2].raised
              /\ U8(fout[1].value + fout[2].value) % M = Indicator(fx = falpha)

\* C4 (DIF correctness): for every alpha, pair of seeds and PRG, DIF.keygen
\* builds a key pair, and for every x the XOR of DIF.eval(0, x, k0) and
\* DIF.eval(1, x, k1) is 1 if x <= alpha (x = alpha included) and 0
\* otherwise.
C4_DIFCorrect ==
    (fkind = "dif" /\ fkey # <<>>) =>
        /\ ~fkey.raised
        /\ fx # -1 =>
              /\ ~fout[1].raised /\ ~fout[2].raised
              /\ (fout[1].value + fout[2].value) % 2 = Indicator(fx <= falpha)

\* C5 (no partial consumption): when eq or le has failed with the
\* empty-store error, every queue of both parties holds what it held when
\* the invocation started.
C5_NoPartialConsumption ==
    (pc = "raised" /\ error \in EmptyStoreErrors) => store = pre

\* C6 (retry after a failed eq): a failed eq has removed nothing, and an eq
\* retried after the dealer's refill returns the result, and leaves the
\* queues, of an eq run on a store that held the refilled primitives from
\* the start.
C6_RetryAfterFailedEq ==
    /\ (pc = "raised" /\ type_op = "eq" /\ error \in EmptyStoreErrors) =>
          store = pre
    /\ (pc = "returned" /\ type_op = "eq" /\ retry # <<>>) =>
          LET run == fss_op(prg, retry, x1, x2, "eq")
          IN  /\ ~run.raised
              /\ Recover(response) = Recover(run.response)
              /\ store = run.store

C6_Witness ==
    /\ pc = "returned" /\ type_op = "eq" /\ retry # <<>>
    /\ Len(pre[0].fss_eq) > Len(store[0].fss_eq)
    /\ Recover(response) = 1

\* C7 (get_keys): on an empty queue, in read and in remove mode and for each
\* type, get_keys raises the error naming that queue, returns no primitive
\* and leaves the worker's three queues unchanged; on a non-empty queue it
\* returns the oldest element, removing it only in remove mode.
C7_GetKeys ==
    gk # <<>> =>
        LET q == primitive_stack(gk.type_op)
        IN  IF gk.before[q] = <<>>
            THEN /\ gk.raised
                 /\ gk.error = q
                 /\ gk.value = <<>>
                 /\ store[gk.worker] = gk.before
            ELSE /\ ~gk.raised
                 /\ gk.value = Head(gk.before[q])
                 /\ store[gk.worker] =
                       IF gk.remove THEN [gk.before EXCEPT ![q] = Tail(@)]
                       ELSE gk.before

\* C8 (lock-step dequeue): between invocations, failed ones included, both
\* parties have removed the same number of primitives from each queue, and
\* the k-th primitive a party removed is its half of the dealer's k-th pair.
C8_LockStep ==
    Idle =>
        \A q \in QueueNames :
            /\ Len(popped[0][q]) = Len(popped[1][q])
            /\ \A p \in Party : \A k \in 1..Len(popped[p][q]) :
                  popped[p][q][k] = dealt[q][k][p + 1]

\* C9 (peek/pop pairing): in every invocation and on every party, the
\* primitive the round-2 evaluation pops is the one mask_builder peeked, and
\* the couple xor_add_convert_2 pops is the one xor_add_convert_1 peeked.
C9_PeekPopPairing ==
    \A i \in 1..2 :
        /\ acc.pop2[i] # <<>> => acc.pop2[i] = acc.peek1[i]
        /\ acc.popx[i] # <<>> => acc.popx[i] = acc.peekx[i]

C9_Witness ==
    /\ pc = "returned" /\ type_op = "comp"
    /\ acc.popx[2] # <<>> /\ acc.pop2[2] # <<>>
    /\ Len(pre[1].xor_add_couple) = 2 /\ Len(pre[1].fss_comp) = 2

\* C10 (consumption and independence): a successful eq removes the head of
\* each party's fss_eq queue and nothing else; a successful le removes the
\* head of each party's fss_comp queue and of its xor_add_couple queue and
\* leaves fss_eq unchanged.
C10_Consumption ==
    pc = "returned" =>
        \A p \in Party :
            IF type_op = "eq"
            THEN /\ pre[p].fss_eq # <<>>
                 /\ store[p] = [pre[p] EXCEPT !.fss_eq = Tail(@)]
            ELSE /\ pre[p].fss_comp # <<>> /\ pre[p].xor_add_couple # <<>>
                 /\ store[p] = [pre[p] EXCEPT !.fss_comp = Tail(@),
                                              !.xor_add_couple = Tail(@)]

C10_Witness ==
    /\ pc = "returned" /\ type_op = "comp"
    /\ \A p \in Party : \A q \in QueueNames : Len(pre[p][q]) = 2

\* C11 as stated (boolean-to-arithmetic conversion): for boolean shares b0,
\* b1 and every xor-add couple pair with xor_0 XOR xor_1 = add_0 + add_1 mod
\* M, the values add_p * (1 - 2 * mu) + p * mu of the two parties, with mu
\* the XOR of the two masked shares, sum mod M to b0 XOR b1.
C11_BoolToArith ==
    (pc = "returned" /\ type_op = "comp" /\ pre # <<>>
        /\ \A p \in Party : pre[p].xor_add_couple # <<>>) =>
        LET c0 == Head(pre[0].xor_add_couple)
            c1 == Head(pre[1].xor_add_couple)
            mu == BitXor(BitXor(prev_shares[1], c0[1]),
                         BitXor(prev_shares[2], c1[1]))
        IN  BitXor(c0[1], c1[1]) = (c0[2] + c1[2]) % M =>
              /\ masked_value = mu
              /\ response = <<c0[2] * (1 - 2 * mu),
                              c1[2] * (1 - 2 * mu) + mu>>
              /\ Recover(response) = BitXor(prev_shares[1], prev_shares[2])

\* C11 amended (boolean-to-arithmetic conversion of a shared bit): for
\* boolean shares b0, b1 and every xor-add couple pair whose xor shares
\* share a bit, xor_0 XOR xor_1 in {0, 1}, with xor_0 XOR xor_1 =
\* add_0 + add_1 mod M, the masked value mu is a bit and the values
\* add_p * (1 - 2 * mu) + p * mu of the two parties sum mod M to b0 XOR b1.
C11_BoolToArithOfBit ==
    (pc = "returned" /\ type_op = "comp" /\ pre # <<>>
        /\ \A p \in Party : pre[p].xor_add_couple # <<>>) =>
        LET c0 == Head(pre[0].xor_add_couple)
            c1 == Head(pre[1].xor_add_couple)
            mu == BitXor(BitXor(prev_shares[1], c0[1]),
                         BitXor(prev_shares[2], c1[1]))
        IN  (/\ BitXor(c0[1], c1[1]) \in Bit
             /\ BitXor(c0[1], c1[1]) = (c0[2] + c1[2]) % M) =>
              /\ masked_value = mu
              /\ mu \in Bit
              /\ response = <<c0[2] * (1 - 2 * mu),
                              c1[2] * (1 - 2 * mu) + mu>>
              /\ Recover(response) = BitXor(prev_shares[1], prev_shares[2])

\* a returned conversion of the shares 1, 0 with xor shares of several bits
\* that share the bit 1
C11_Witness ==
    /\ pc = "returned" /\ type_op = "comp"
    /\ prev_shares = <<1, 0>>
    /\ Head(pre[0].xor_add_couple)[1] > 1
    /\ BitXor(Head(pre[0].xor_add_couple)[1], Head(pre[1].xor_add_couple)[1]) = 1
    /\ masked_value = 0
    /\ Recover(response) = 1

\* C12 (independence from sharing randomness): for fixed x, y and key pair,
\* the masked value broadcast in round 2 and the reconstructed result of eq
\* are those of the run on the sharing (x, 0), (y, 0), whatever the random
\* shares; so any two runs that differ only in the sharing agree on both.
C12_SharingIndependent ==
    (pc = "returned" /\ type_op = "eq") =>
        LET x == Recover(x1)
            y == Recover(x2)
            m0 == mask_builder(pre[0], x, y, "eq")
            m1 == mask_builder(pre[1], 0, 0, "eq")
            run == fss_op(prg, pre, <<x, 0>>, <<y, 0>>, "eq")
        IN  /\ mask_value = (m0.value + m1.value) % 2 ^ n
            /\ ~run.raised
            /\ Recover(response) = Recover(run.response)

C12_Witness ==
    /\ pc = "returned" /\ type_op = "eq"
    /\ x1[1] = 3 /\ x1[2] # 0 /\ x2[1] = M - 1 /\ x2[2] # 0
    /\ Recover(x1) = Recover(x2)
    /\ Recover(response) = 1

\* C13 (mask uniformity): for fixed operands, hence for a fixed difference
\* d = (x - y) mod M, the masked value m reconstructed in round 1 lies in
\* [0, M) and no other hidden alpha gives the same m: alpha |-> m is one to
\* one on [0, M), hence a bijection.
C13_MaskBijection ==
    (pc = "plan_2" /\ loc = 0) =>
        /\ mask_value \in 0..(M - 1)
        /\ mask_value = MaskOf(pre, x1, x2, type_op)
        /\ \A a \in 0..(M - 1) :
              (MaskOf(WithAlpha(pre, type_op, a), x1, x2, type_op) = mask_value)
                  <=> (a = AlphaOf(pre, type_op))

C13_Witness ==
    /\ pc = "plan_2" /\ loc = 0
    /\ AlphaOf(pre, type_op) = M - 1
    /\ (Recover(x1) - Recover(x2)) % M = 1
    /\ mask_value = 0

\* C14 (correction-word path invariant): when both parties evaluate their
\* halves of one DPF or DIF key pair on the same x, after every level i in
\* 1..n that the two evaluations reach, the control bits differ if the first
\* i bits of x are those of alpha, and otherwise the parties hold the same
\* seed and the same control bit; off the path of alpha one evaluation
\* reaches a level exactly when the other does.
C14_PathInvariant ==
    (fkind \in {"dpf", "dif"} /\ fx # -1) =>
        \A e0 \in {EvalLevels(0)}, e1 \in {EvalLevels(1)},
           xb \in {bit_decomposition(fx)}, ab \in {bit_decomposition(falpha)} :
            \A i \in 1..n :
                IF SubSeq(xb, 1, i) = SubSeq(ab, 1, i)
                THEN /\ ~e0[i + 1].raised /\ ~e1[i + 1].raised
                     /\ e0[i + 1].t # e1[i + 1].t
                ELSE /\ e0[i + 1].raised = e1[i + 1].raised
                     /\ e0[i + 1].s = e1[i + 1].s /\ e0[i + 1].t = e1[i + 1].t

C14_Witness ==
    /\ fkind = "dif" /\ fx # -1
    /\ ~EvalLevels(0)[n + 1].raised
    /\ bit_decomposition(fx)[1] = bit_decomposition(falpha)[1]
    /\ bit_decomposition(fx)[2] # bit_decomposition(falpha)[2]
    /\ EvalLevels(0)[2].t # EvalLevels(1)[2].t
    /\ EvalLevels(0)[n + 1].s = EvalLevels(1)[n + 1].s

\* C15 (round 1 only peeks): a step of the round of mask_builder, for eq and
\* for comp, and a step of the round of xor_add_convert_1 leave the three
\* queues of both parties unchanged, whether the plan returns or raises.
C15_Round1Peeks ==
    [][(pc \in {"plan_1", "xor_add_1"}) => store' = store]_vars

C15_Witness ==
    /\ pc = "xor_add_2" /\ loc = 0
    /\ \A i \in 1..2 : acc.peek1[i] # <<>> /\ acc.peekx[i] # <<>>
    /\ \A p \in Party : /\ store[p].xor_add_couple = pre[p].xor_add_couple
                         /\ Len(store[p].xor_add_couple) = MaxPairs
                         /\ store[p].fss_eq = pre[p].fss_eq

\* C16 (concurrent operations, every queue access atomic): in each of two
\* concurrent operations of the same type the round-2 evaluation of a party
\* uses the primitive whose alpha share that party added to the round-1
\* mask share of the same operation, and each operation that returns
\* reconstructs the predicate on its operands.
C16_ConcurrentPairing ==
    conc # NoConc =>
        \A o \in Threads :
            /\ \A i \in 1..2 :
                  conc[o].pop2[i] # <<>> => conc[o].pop2[i] = conc[o].peek1[i]
            /\ conc[o].pc = "returned" =>
                  Recover(conc[o].response) =
                      Indicator(IF conc[o].type_op = "eq"
                                THEN Recover(x1) = Recover(x2)
                                ELSE Recover(x1) <= Recover(x2))

\* C17 (mask reconstruction and round barrier): no party runs its round-2
\* evaluation before every party's mask share is collected; the value sent
\* to a party in round 2 lies in [0, M) and is (x - y + alpha) mod M, alpha
\* being shared by the alpha shares at the heads of the parties' queues of
\* the operation's type; both parties are sent the same value.
C17_MaskAndBarrier ==
    /\ \A i \in 1..2 :
          (acc.pop2[i] # <<>> \/ acc.x_masked[i] # -1) =>
              \A j \in 1..2 : acc.peek1[j] # <<>>
    /\ \A i \in 1..2 :
          acc.x_masked[i] # -1 =>
              /\ acc.x_masked[i] \in 0..(M - 1)
              /\ acc.x_masked[i] =
                    (Recover(x1) - Recover(x2) + AlphaOf(pre, type_op)) % M
    /\ (acc.x_masked[1] # -1 /\ acc.x_masked[2] # -1) =>
          acc.x_masked[1] = acc.x_masked[2]

C17_Witness ==
    /\ pc = "returned" /\ type_op = "comp"
    /\ Recover(x1) = M - 1 /\ Recover(x2) = 0
    /\ AlphaOf(pre, "comp") = 2
    /\ acc.x_masked = <<1, 1>>

\* C18 (PRG output width): for every value of the digest, leading zero bits
\* included, G returns exactly 2*(lambda+1) bits, the leading bits of the
\* digest, and H exactly 2*(lambda+2) bits, the leading bits of the digest.
C18_PRGWidth ==
    (fkind = "prg" /\ fx # -1 /\ 2 * (flambda + 2) <= DigestBits) =>
        LET digest == ToBits(falpha, DigestBits)
        IN  /\ ~fout[1].raised /\ ~fout[2].raised
            /\ Len(fout[1].value) = 2 * (flambda + 1)
            /\ fout[1].value = SubSeq(digest, 1, 2 * (flambda + 1))
            /\ Len(fout[2].value) = 2 * (flambda + 2)
            /\ fout[2].value = SubSeq(digest, 1, 2 * (flambda + 2))

\* C19 (PRG width check): when the width requested of G, 2*(lambda+1), or of
\* H, 2*(lambda+2), exceeds the bits of the digest, the PRG fails with an
\* error instead of returning a bit string shorter than requested.
C19_PRGWidthCheck ==
    (fkind = "prg" /\ fx # -1) =>
        /\ 2 * (flambda + 1) > DigestBits => fout[1].raised
        /\ 2 * (flambda + 2) > DigestBits => fout[2].raised

\* C20 (Convert reduces modulo M): for every lambda-bit string Convert
\* returns the value of the bits read MSB first reduced modulo M = 2^n, so
\* that two bit strings that differ only in one bit of weight below 2^n
\* give different results.
C20_ConvertModM ==
    (fkind = "convert" /\ fx # -1) =>
        /\ \A k \in 1..2 : fout[k] = BitsValue(fseeds[k]) % M
        /\ \A i \in (lambda - n + 1)..lambda :
              (/\ i >= 1
               /\ fseeds[1][i] # fseeds[2][i]
               /\ \A j \in 1..lambda : j # i => fseeds[1][j] = fseeds[2][j])
                  => fout[1] # fout[2]
====
